---------------------------- MODULE Spec2Model ----------------------------
(***************************************************************************)
(* A model of dxf2pdf (src/main.py): one conversion run of main(), from    *)
(* the parsed command line to the exit status.                             *)
(*                                                                         *)
(* Lengths are integers (drawing units / millimetres).  Trigonometry is    *)
(* fixed point: Cos100(d) = round(100*cos(d degrees)) on the multiples of  *)
(* ten degrees, and every radius is a multiple of 100, so radius*cos is an *)
(* exact integer.  float('inf') is the integer Inf, larger than every      *)
(* coordinate of the model.                                                *)
(***************************************************************************)
EXTENDS Integers, Sequences, FiniteSets

VARIABLES
    msp,            \* the modelspace: the sequence of entities read from the DXF
    paper_arg,      \* main: paper_size, the result of parse_paper_size
    margin_mm,      \* main: args.margin
    add_marks,      \* main: not args.no_crop_marks
    pc,             \* where the run is
    box,            \* dxf_to_pdf_tiled: (min_x, min_y, max_x, max_y)
    width, height,  \* dxf_to_pdf_tiled: the drawing's extent
    paper_size_mm,  \* dxf_to_pdf_tiled: the paper after auto-orientation
    content_w, content_h,
    cols, rows,
    row, col,       \* the position of the tile loop
    pdf,            \* the pages appended to the PdfPages object, in order
    pdf_file,       \* "none": never opened, "open", "written", "absent"
    exit_status     \* main's return value, -1 while it runs

vars == <<msp, paper_arg, margin_mm, add_marks, pc, box, width, height,
          paper_size_mm, content_w, content_h, cols, rows, row, col,
          pdf, pdf_file, exit_status>>

-----------------------------------------------------------------------------
(* Bounds of the model *)

MaxEntities == 2
MaxVertices == 2
MaxRadius == 1

(* float('inf') *)
Inf == 1000000

-----------------------------------------------------------------------------
(* Arithmetic helpers *)

MinOf(S) == CHOOSE m \in S : \A v \in S : m <= v
MaxOf(S) == CHOOSE m \in S : \A v \in S : m >= v

\* math.ceil(a / b) for b # 0
CeilDiv(a, b) ==
    IF b > 0 THEN -((-a) \div b) ELSE -(a \div (-b))

\* round(100 * cos(d degrees)) for d = 0, 10, ..., 90
CosQuadrant == <<100, 98, 94, 87, 77, 64, 50, 34, 17, 0>>

\* 100 * math.cos(math.radians(d)), d a multiple of 10 in 0..360
Cos100(d) ==
    IF d <= 90 THEN CosQuadrant[(d \div 10) + 1]
    ELSE IF d <= 180 THEN -CosQuadrant[((180 - d) \div 10) + 1]
    ELSE IF d <= 270 THEN -CosQuadrant[((d - 180) \div 10) + 1]
    ELSE CosQuadrant[((360 - d) \div 10) + 1]

\* 100 * math.sin(math.radians(d))
Sin100(d) == Cos100(IF d >= 90 THEN d - 90 ELSE d + 270)

\* center.x + radius * cos(angle), center.y + radius * sin(angle)
ArcPoint(center, radius, d) ==
    [x |-> center.x + (radius * Cos100(d)) \div 100,
     y |-> center.y + (radius * Sin100(d)) \div 100]

-----------------------------------------------------------------------------
(* Entities: what the code reads of an ezdxf entity.  broken: reading the  *)
(* entity's geometry attributes raises (a missing attribute); such an      *)
(* entity carries no geometry.                                             *)

Pt(px, py) == [x |-> px, y |-> py]

Entity(k, p, r, sa, ea, cl, d3, br) ==
    [kind |-> k, pts |-> p, radius |-> r, start_angle |-> sa, end_angle |-> ea,
     closed |-> cl, is3d |-> d3, broken |-> br]

Line(s, e)        == Entity("LINE", <<s, e>>, 0, 0, 0, FALSE, FALSE, FALSE)
Circle(c, r)      == Entity("CIRCLE", <<c>>, r, 0, 0, FALSE, FALSE, FALSE)
Arc(c, r, sa, ea) == Entity("ARC", <<c>>, r, sa, ea, FALSE, FALSE, FALSE)
LwPolyline(p, cl) == Entity("LWPOLYLINE", p, 0, 0, 0, cl, FALSE, FALSE)
Polyline(p, cl, d3) == Entity("POLYLINE", p, 0, 0, 0, cl, d3, FALSE)
Ellipse(c)        == Entity("ELLIPSE", <<c>>, 0, 0, 0, FALSE, FALSE, FALSE)
Spline(p)         == Entity("SPLINE", p, 0, 0, 0, FALSE, FALSE, FALSE)
Point(p)          == Entity("POINT", <<p>>, 0, 0, 0, FALSE, FALSE, FALSE)
Text(p)           == Entity("TEXT", <<p>>, 0, 0, 0, FALSE, FALSE, FALSE)
Insert            == Entity("INSERT", <<>>, 0, 0, 0, FALSE, FALSE, FALSE)
Broken(k)         == Entity(k, <<>>, 0, 0, 0, FALSE, FALSE, TRUE)

-----------------------------------------------------------------------------
(* calculate_bounding_box *)

\* the four running bounds before the loop
InitialBounds == [min_x |-> Inf, min_y |-> Inf, max_x |-> -Inf, max_y |-> -Inf]

\* min_x = min(min_x, ...); min_y = ...; max_x = ...; max_y = ...
FoldCoords(b, xs, ys) ==
    [min_x |-> MinOf({b.min_x} \cup xs), min_y |-> MinOf({b.min_y} \cup ys),
     max_x |-> MaxOf({b.max_x} \cup xs), max_y |-> MaxOf({b.max_y} \cup ys)]

\* for point in points: fold the point
RECURSIVE FoldPoints(_, _, _)
FoldPoints(b, pts, i) ==
    IF i > Len(pts) THEN b
    ELSE FoldPoints(FoldCoords(b, {pts[i].x}, {pts[i].y}), pts, i + 1)

\* angle_in_arc with the wraparound branch dropped
angle_in_arc_nowrap(angle, start_deg, end_deg) ==
    start_deg <= angle /\ angle <= end_deg

angle_in_arc(angle, start_deg, end_deg) ==
    IF start_deg <= end_deg
    THEN start_deg <= angle /\ angle <= end_deg
    ELSE angle >= start_deg \/ angle <= end_deg

\* the ARC branch with the box of the two endpoints alone
ArcBoundsEndpointsOnly(e) ==
    LET center == e.pts[1]
        s == ArcPoint(center, e.radius, e.start_angle)
        t == ArcPoint(center, e.radius, e.end_angle)
    IN  [min_x |-> MinOf({s.x, t.x}), min_y |-> MinOf({s.y, t.y}),
         max_x |-> MaxOf({s.x, t.x}), max_y |-> MaxOf({s.y, t.y})]

\* the ARC branch: the arc's own box, from its endpoints and the cardinal
\* angles its sweep includes
ArcBounds(e) ==
    LET center == e.pts[1]
        s == ArcPoint(center, e.radius, e.start_angle)
        t == ArcPoint(center, e.radius, e.end_angle)
        in_arc(a) == angle_in_arc(a, e.start_angle, e.end_angle)
    IN  [min_x |-> IF in_arc(180) THEN center.x - e.radius ELSE MinOf({s.x, t.x}),
         min_y |-> IF in_arc(270) THEN center.y - e.radius ELSE MinOf({s.y, t.y}),
         max_x |-> IF in_arc(0) THEN center.x + e.radius ELSE MaxOf({s.x, t.x}),
         max_y |-> IF in_arc(90) THEN center.y + e.radius ELSE MaxOf({s.y, t.y})]

\* whether the body of the try block raises for this entity: the branch of
\* its kind reads an attribute of a broken entity
BoundsRaises(e) ==
    /\ e.broken
    /\ \/ e.kind \in {"LINE", "CIRCLE", "ARC", "LWPOLYLINE", "POINT", "TEXT"}
       \/ e.kind = "POLYLINE" /\ ~e.is3d

\* the body of the try block for an entity that does not raise
FoldEntity(b, e) ==
    CASE e.kind = "LINE" ->
            FoldCoords(b, {e.pts[1].x, e.pts[2].x}, {e.pts[1].y, e.pts[2].y})
      [] e.kind = "CIRCLE" ->
            [min_x |-> MinOf({b.min_x, e.pts[1].x - e.radius}),
             min_y |-> MinOf({b.min_y, e.pts[1].y - e.radius}),
             max_x |-> MaxOf({b.max_x, e.pts[1].x + e.radius}),
             max_y |-> MaxOf({b.max_y, e.pts[1].y + e.radius})]
      [] e.kind = "ARC" ->
            LET a == ArcBounds(e)
            IN  [min_x |-> MinOf({b.min_x, a.min_x}),
                 min_y |-> MinOf({b.min_y, a.min_y}),
                 max_x |-> MaxOf({b.max_x, a.max_x}),
                 max_y |-> MaxOf({b.max_y, a.max_y})]
      [] e.kind = "LWPOLYLINE" -> FoldPoints(b, e.pts, 1)
      [] e.kind = "POLYLINE" ->
            IF ~e.is3d THEN FoldPoints(b, e.pts, 1) ELSE b
      [] e.kind \in {"POINT", "TEXT"} ->
            FoldCoords(b, {e.pts[1].x}, {e.pts[1].y})
      [] OTHER -> b

\* except: break -- the loop ends at the first entity that raises
AfterErrorBreak(entities, i) == Len(entities) + 1

\* except Exception: print(...); continue -- the index of the next entity
AfterError(entities, i) == i + 1

\* for entity in msp: try: ... except: ...
RECURSIVE BoundsLoop(_, _, _)
BoundsLoop(entities, i, b) ==
    IF i > Len(entities) THEN b
    ELSE IF BoundsRaises(entities[i])
         THEN BoundsLoop(entities, AfterError(entities, i), b)
         ELSE BoundsLoop(entities, i + 1, FoldEntity(b, entities[i]))

\* the loop's result returned as it is, with no empty case
NoSentinel(b) == b

\* if min_x == float('inf'): return 0, 0, 0, 0
Sentinel(b) ==
    IF b.min_x = Inf
    THEN [min_x |-> 0, min_y |-> 0, max_x |-> 0, max_y |-> 0]
    ELSE b

calculate_bounding_box(entities) ==
    Sentinel(BoundsLoop(entities, 1, InitialBounds))

-----------------------------------------------------------------------------
(* draw_entities *)

\* the angles of the points plotted for an arc: np.linspace over the sweep,
\* in two parts through 0 degrees when start_angle > end_angle
ArcSampleAngles(e) ==
    IF e.start_angle > e.end_angle
    THEN {10 * k : k \in (e.start_angle \div 10)..36}
            \cup {10 * k : k \in 0..(e.end_angle \div 10)}
    ELSE {10 * k : k \in (e.start_angle \div 10)..(e.end_angle \div 10)}

ArcSamples(e) == {ArcPoint(e.pts[1], e.radius, a) : a \in ArcSampleAngles(e)}

\* what one iteration of the loop does with an entity: "plot" (ax.plot),
\* "patch" (ax.add_patch), "none" (nothing drawn), "error" (the handler ran)
DrawOutcome(e) ==
    CASE e.kind \in {"LINE", "ARC", "ELLIPSE", "POINT"} ->
            IF e.broken THEN "error" ELSE "plot"
      [] e.kind = "CIRCLE" -> IF e.broken THEN "error" ELSE "patch"
      [] e.kind = "LWPOLYLINE" ->
            IF e.broken THEN "error"
            ELSE IF Len(e.pts) > 1 THEN "plot" ELSE "none"
      [] e.kind = "POLYLINE" ->
            IF e.is3d THEN "none"
            ELSE IF e.broken THEN "error"
            ELSE IF Len(e.pts) > 1 THEN "plot" ELSE "none"
      [] e.kind = "SPLINE" ->
            IF e.broken THEN "none"
            ELSE IF Len(e.pts) > 1 THEN "plot" ELSE "none"
      [] OTHER -> "none"

\* for e in entities: try: ... except: continue
draw_entities(entities) ==
    [i \in 1..Len(entities) |-> DrawOutcome(entities[i])]

-----------------------------------------------------------------------------
(* dxf_to_pdf_tiled and main *)

\* landscape_fits_better without the test of the paper's own orientation
landscape_fits_better_any_paper(w, h, paper) == w > h

\* landscape_fits_better = (width > height and paper[0] < paper[1])
landscape_fits_better(w, h, paper) == w > h /\ paper[1] < paper[2]

\* the viewport of tile (r, c): x0, x1, y0, y1
TileViewport(r, c) ==
    LET x0 == box.min_x + c * content_w
        y0 == box.min_y + r * content_h
    IN  [x0 |-> x0, x1 |-> MinOf({x0 + content_w, box.max_x}),
         y0 |-> y0, y1 |-> MinOf({y0 + content_h, box.max_y})]

\* the tile loop has a tile left: row in range(rows), col in range(cols)
TileLeft == row < rows /\ col < cols

\* main calls dxf_to_pdf_tiled: the file is read, the bounding box computed
\* and the zero-extent case returns with a warning
Bound ==
    /\ pc = "main"
    /\ LET b == calculate_bounding_box(msp)
       IN  /\ box' = b
           /\ width' = b.max_x - b.min_x
           /\ height' = b.max_y - b.min_y
           /\ pc' = IF b.max_x - b.min_x = 0 /\ b.max_y - b.min_y = 0
                    THEN "returned" ELSE "layout"
    /\ UNCHANGED <<msp, paper_arg, margin_mm, add_marks, paper_size_mm,
                   content_w, content_h, cols, rows, row, col, pdf, pdf_file,
                   exit_status>>

\* auto-orientation, the content area and the grid; a content width or
\* height of 0 raises ZeroDivisionError in math.ceil(width / content_w);
\* otherwise the PdfPages object is opened
Layout ==
    /\ pc = "layout"
    /\ LET paper == IF landscape_fits_better(width, height, paper_arg)
                    THEN <<paper_arg[2], paper_arg[1]>> ELSE paper_arg
           cw == paper[1] - 2 * margin_mm
           ch == paper[2] - 2 * margin_mm
       IN  /\ paper_size_mm' = paper
           /\ content_w' = cw
           /\ content_h' = ch
           /\ IF cw = 0 \/ ch = 0
              THEN /\ pc' = "raised"
                   /\ cols' = IF cw = 0 THEN 0 ELSE CeilDiv(width, cw)
                   /\ UNCHANGED <<rows, pdf_file>>
              ELSE /\ pc' = "tiling"
                   /\ cols' = CeilDiv(width, cw)
                   /\ rows' = CeilDiv(height, ch)
                   /\ pdf_file' = "open"
    /\ UNCHANGED <<msp, paper_arg, margin_mm, add_marks, box, width, height,
                   row, col, pdf, exit_status>>

\* one iteration of the tile loop: the viewport, the entities drawn, the crop
\* marks, and pdf.savefig appends the page
RenderTile ==
    /\ pc = "tiling"
    /\ TileLeft
    /\ LET v == TileViewport(row, col)
       IN  pdf' = Append(pdf, [row |-> row, col |-> col,
                               x0 |-> v.x0, x1 |-> v.x1, y0 |-> v.y0, y1 |-> v.y1,
                               drawn |-> draw_entities(msp),
                               marks |-> add_marks])
    /\ IF col + 1 < cols
       THEN col' = col + 1 /\ row' = row
       ELSE col' = 0 /\ row' = row + 1
    /\ UNCHANGED <<msp, paper_arg, margin_mm, add_marks, pc, box, width, height,
                   paper_size_mm, content_w, content_h, cols, rows, pdf_file,
                   exit_status>>

\* the loops are over: the with block closes the PdfPages object and
\* dxf_to_pdf_tiled returns.  Whether closing a document with no page leaves
\* a file depends on the matplotlib version (keep_empty).
ClosePdf ==
    /\ pc = "tiling"
    /\ ~TileLeft
    /\ pdf_file' \in (IF pdf = <<>> THEN {"written", "absent"} ELSE {"written"})
    /\ pc' = "returned"
    /\ UNCHANGED <<msp, paper_arg, margin_mm, add_marks, box, width, height,
                   paper_size_mm, content_w, content_h, cols, rows, row, col,
                   pdf, exit_status>>

\* main returns: 1 from an except branch, 0 otherwise
MainReturn ==
    /\ pc \in {"returned", "raised"}
    /\ exit_status' = IF pc = "raised" THEN 1 ELSE 0
    /\ pc' = "exited"
    /\ UNCHANGED <<msp, paper_arg, margin_mm, add_marks, box, width, height,
                   paper_size_mm, content_w, content_h, cols, rows, row, col,
                   pdf, pdf_file>>

Next == Bound \/ Layout \/ RenderTile \/ ClosePdf \/ MainReturn

-----------------------------------------------------------------------------
(* The inputs of a run *)

\* sequences over S of length 0..n
SeqsUpTo(S, n) == UNION {[1..k -> S] : k \in 0..n}

\* the state main starts dxf_to_pdf_tiled in
Start(entities, paper, margin, marks) ==
    /\ msp = entities
    /\ paper_arg = paper
    /\ margin_mm = margin
    /\ add_marks = marks
    /\ pc = "main"
    /\ box = [min_x |-> 0, min_y |-> 0, max_x |-> 0, max_y |-> 0]
    /\ width = 0 /\ height = 0
    /\ paper_size_mm = paper
    /\ content_w = 0 /\ content_h = 0
    /\ cols = 0 /\ rows = 0
    /\ row = 0 /\ col = 0
    /\ pdf = <<>>
    /\ pdf_file = "none"
    /\ exit_status = -1

\* --paper: A4, its landscape form as width,height, and A0
A4 == <<210, 297>>
A4Landscape == <<297, 210>>
A0 == <<841, 1189>>

\* --margin: the default, one that leaves a content width (or height) of
\* exactly 0 on A4, one that leaves one side negative, one that leaves both
Margins == {10, 105, 120, 150}

\* Drawings for the layout: a horizontal, a vertical, a wide, a tall and a
\* zero-length line, points, a text, a spline and an entity that cannot be read
LayoutEntities ==
    {Line(Pt(0, 0), Pt(800, 0)), Line(Pt(0, 0), Pt(0, 600)),
     Line(Pt(0, 0), Pt(800, 200)), Line(Pt(0, 0), Pt(100, 600)),
     Line(Pt(0, 0), Pt(0, 0)), Point(Pt(0, 0)), Point(Pt(100, 200)),
     Text(Pt(800, 200)), Spline(<<Pt(0, 0), Pt(900, 900)>>), Broken("LINE")}

Init ==
    \E entities \in SeqsUpTo(LayoutEntities, MaxEntities),
       paper \in {A4, A4Landscape}, margin \in Margins, marks \in BOOLEAN :
        Start(entities, paper, margin, marks)

Spec == Init /\ [][Next]_vars

\* Drawings for the bounding box: every kind of entity, with negative
\* coordinates, arcs with and without the zero crossing, polylines of every
\* length, and each reading kind broken
BoxPoints == {Pt(0, 0), Pt(300, -100)}
Radii == {100 * k : k \in 1..MaxRadius}
BoxArcSweeps == {<<0, 90>>, <<350, 10>>, <<270, 90>>, <<100, 260>>}
VertexSeqs == SeqsUpTo(BoxPoints, MaxVertices)

BoxEntities ==
    {Line(s, e) : s \in BoxPoints, e \in BoxPoints}
    \cup {Circle(Pt(-100, 200), r) : r \in Radii}
    \cup {Arc(Pt(0, 0), r, w[1], w[2]) : r \in Radii, w \in BoxArcSweeps}
    \cup {LwPolyline(p, FALSE) : p \in VertexSeqs}
    \cup {Polyline(<<Pt(0, 0), Pt(-200, 400)>>, cl, cl) : cl \in BOOLEAN}
    \cup {Ellipse(Pt(0, 0)), Insert}
    \cup {Spline(<<Pt(500, 500), Pt(0, 0)>>)}
    \cup {Point(p) : p \in BoxPoints}
    \cup {Text(Pt(-300, 0))}
    \cup {Broken(k) : k \in {"LINE", "CIRCLE", "ARC", "LWPOLYLINE", "POLYLINE",
                             "SPLINE", "POINT", "TEXT"}}

InitBox ==
    \E entities \in SeqsUpTo(BoxEntities, MaxEntities) :
        Start(entities, A0, 10, TRUE)

SpecBox == InitBox /\ [][Next]_vars

\* A drawing of one arc: every start and end angle among the multiples of
\* ten degrees in [0, 360)
Degrees == {10 * k : k \in 0..35}

InitArc ==
    \E c \in BoxPoints, r \in Radii, sa \in Degrees, ea \in Degrees :
        Start(<<Arc(c, r, sa, ea)>>, A4, 10, TRUE)

SpecArc == InitArc /\ [][Next]_vars

-----------------------------------------------------------------------------
(* Properties *)

ZeroBox == [min_x |-> 0, min_y |-> 0, max_x |-> 0, max_y |-> 0]

\* calculate_bounding_box has returned
Bounded == pc # "main"

\* the run got past the zero-extent check
PastZeroCheck == Bounded /\ ~(width = 0 /\ height = 0)

\* the orientation and the content area have been computed
LayoutDone == PastZeroCheck /\ pc # "layout"

\* the tile loop has been entered and left
TilesDone == LayoutDone /\ pc \in {"returned", "exited"}

InBox(p) ==
    /\ box.min_x <= p.x /\ p.x <= box.max_x
    /\ box.min_y <= p.y /\ p.y <= box.max_y

PointsOf(e) == {e.pts[j] : j \in 1..Len(e.pts)}

\* twice the coordinates at which coverage can change, inside the box: the
\* edges of the box and of the tiles, and the midpoints between them
CritX == {box.min_x, box.max_x} \cup {pdf[k].x0 : k \in 1..Len(pdf)}
            \cup {pdf[k].x1 : k \in 1..Len(pdf)}
CritY == {box.min_y, box.max_y} \cup {pdf[k].y0 : k \in 1..Len(pdf)}
            \cup {pdf[k].y1 : k \in 1..Len(pdf)}
TestX2 == {a + b : a \in CritX, b \in CritX} \cap (2 * box.min_x)..(2 * box.max_x)
TestY2 == {a + b : a \in CritY, b \in CritY} \cap (2 * box.min_y)..(2 * box.max_y)

\* the point (x2/2, y2/2) lies in some tile's viewport
Covered(x2, y2) ==
    \E k \in 1..Len(pdf) :
        /\ 2 * pdf[k].x0 <= x2 /\ x2 <= 2 * pdf[k].x1
        /\ 2 * pdf[k].y0 <= y2 /\ y2 <= 2 * pdf[k].y1

\* C1: once the tile loop of a run that got past the zero-extent check is
\* over, the union of the tile viewports is exactly
\* [min_x, max_x] x [min_y, max_y] (every point of the box lies in a tile, and
\* every tile lies in the box) and the number of tiles is cols * rows.
C1_TilesCoverBox ==
    (TilesDone /\ pdf_file # "none") =>
        /\ Len(pdf) = cols * rows
        /\ \A x2 \in TestX2, y2 \in TestY2 : Covered(x2, y2)
        /\ \A k \in 1..Len(pdf) :
            /\ box.min_x <= pdf[k].x0 /\ pdf[k].x0 <= pdf[k].x1
            /\ pdf[k].x1 <= box.max_x
            /\ box.min_y <= pdf[k].y0 /\ pdf[k].y0 <= pdf[k].y1
            /\ pdf[k].y1 <= box.max_y

\* C2: the box returned by calculate_bounding_box contains both endpoints of
\* every LINE, the four points center +/- radius of every CIRCLE and every
\* sampled point of every ARC's sweep (through 0 degrees when
\* start_angle > end_angle).
C2_BoxContainsCurves ==
    Bounded =>
        \A i \in 1..Len(msp) :
            LET e == msp[i] IN
            ~e.broken =>
                /\ e.kind = "LINE" => InBox(e.pts[1]) /\ InBox(e.pts[2])
                /\ e.kind = "CIRCLE" =>
                    /\ InBox(Pt(e.pts[1].x - e.radius, e.pts[1].y))
                    /\ InBox(Pt(e.pts[1].x + e.radius, e.pts[1].y))
                    /\ InBox(Pt(e.pts[1].x, e.pts[1].y - e.radius))
                    /\ InBox(Pt(e.pts[1].x, e.pts[1].y + e.radius))
                /\ e.kind = "ARC" => \A p \in ArcSamples(e) : InBox(p)

\* C2's case: the box of a drawing that holds a zero-crossing arc and a line
\* or a circle has been computed
C2_Witness ==
    /\ Bounded
    /\ \E i \in 1..Len(msp) :
        msp[i].kind = "ARC" /\ msp[i].start_angle > msp[i].end_angle
    /\ \E i \in 1..Len(msp) : msp[i].kind \in {"LINE", "CIRCLE"} /\ ~msp[i].broken

\* the wraparound test of the claim: start <= angle <= end when
\* start <= end, angle >= start or angle <= end when start > end
InSweep(angle, e) ==
    \/ e.start_angle <= e.end_angle
        /\ e.start_angle <= angle /\ angle <= e.end_angle
    \/ e.start_angle > e.end_angle
        /\ (angle >= e.start_angle \/ angle <= e.end_angle)

\* C3: for a drawing of one ARC with angles in [0, 360), each bound of the
\* box is center +/- radius when the matching cardinal angle (0: max x,
\* 90: max y, 180: min x, 270: min y) passes the wraparound test and the
\* min/max of the two endpoints' coordinates otherwise; an arc from 350 to 10
\* degrees gets max_x = center.x + radius and not min_x = center.x - radius.
C3_ArcCardinalBounds ==
    (Bounded /\ Len(msp) = 1 /\ msp[1].kind = "ARC") =>
        LET e == msp[1]
            c == e.pts[1]
            s == ArcPoint(c, e.radius, e.start_angle)
            t == ArcPoint(c, e.radius, e.end_angle)
        IN  /\ box.max_x = IF InSweep(0, e) THEN c.x + e.radius
                           ELSE MaxOf({s.x, t.x})
            /\ box.max_y = IF InSweep(90, e) THEN c.y + e.radius
                           ELSE MaxOf({s.y, t.y})
            /\ box.min_x = IF InSweep(180, e) THEN c.x - e.radius
                           ELSE MinOf({s.x, t.x})
            /\ box.min_y = IF InSweep(270, e) THEN c.y - e.radius
                           ELSE MinOf({s.y, t.y})
            /\ (e.start_angle = 350 /\ e.end_angle = 10) =>
                /\ box.max_x = c.x + e.radius
                /\ box.min_x # c.x - e.radius

\* C3's case: the box of the arc from 350 to 10 degrees has been computed
C3_Witness ==
    /\ Bounded
    /\ Len(msp) = 1 /\ msp[1].kind = "ARC"
    /\ msp[1].start_angle = 350 /\ msp[1].end_angle = 10
    /\ box.max_x = msp[1].pts[1].x + msp[1].radius

\* the drawing has no entity, or its bounding box has zero width and height
ZeroExtent == msp = <<>> \/ (width = 0 /\ height = 0)

C5_InvalidMarginFails ==
    (pc = "exited" /\ LayoutDone /\ (content_w <= 0 \/ content_h <= 0)) =>
        exit_status = 1 /\ pdf = <<>> /\ pdf_file \in {"none", "absent"}

\* C6: the paper is swapped exactly when the drawing is wider than tall and
\* the configured paper taller than wide; the content area is computed from
\* the paper after the swap; a drawing of 800 x 200 on (210, 297) uses
\* (297, 210).
C6_AutoOrient ==
    LayoutDone =>
        /\ paper_size_mm =
            IF width > height /\ paper_arg[1] < paper_arg[2]
            THEN <<paper_arg[2], paper_arg[1]>> ELSE paper_arg
        /\ content_w = paper_size_mm[1] - 2 * margin_mm
        /\ content_h = paper_size_mm[2] - 2 * margin_mm
        /\ (width = 800 /\ height = 200 /\ paper_arg = <<210, 297>>) =>
            paper_size_mm = <<297, 210>>

\* C6's case: the layout of a drawing of 800 x 200 on (210, 297) is done
C6_Witness ==
    /\ LayoutDone
    /\ width = 800 /\ height = 200 /\ paper_arg = <<210, 297>>
    /\ paper_size_mm = <<297, 210>>

\* C7: in a run past the zero-extent check with a positive content area,
\* cols >= 1 and rows >= 1, also when one of width and height is zero, so the
\* finished run has produced at least one page.
C7_GridAtLeastOne ==
    (LayoutDone /\ content_w > 0 /\ content_h > 0) =>
        /\ cols >= 1
        /\ rows >= 1
        /\ pc = "exited" => Len(pdf) >= 1

\* C8: the box contains every vertex, point and control point of every LINE,
\* POINT, TEXT, 2D LWPOLYLINE/POLYLINE and SPLINE, and for a drawing of one
\* such entity it is the min/max of the entity's coordinates.
C8_VerticesFolded ==
    Bounded =>
        \A i \in 1..Len(msp) :
            LET e == msp[i] IN
            (/\ ~e.broken
             /\ e.kind \in {"LINE", "POINT", "TEXT", "LWPOLYLINE", "POLYLINE",
                            "SPLINE"}
             /\ ~e.is3d
             /\ e.pts # <<>>) =>
                /\ \A p \in PointsOf(e) : InBox(p)
                /\ Len(msp) = 1 =>
                    /\ box.min_x = MinOf({p.x : p \in PointsOf(e)})
                    /\ box.max_x = MaxOf({p.x : p \in PointsOf(e)})
                    /\ box.min_y = MinOf({p.y : p \in PointsOf(e)})
                    /\ box.max_y = MaxOf({p.y : p \in PointsOf(e)})

\* the drawing without the entities that cannot be read
Readable(entities) == SelectSeq(entities, LAMBDA e : ~e.broken)

\* C9: an entity whose geometry cannot be read is skipped: the box is the box
\* of the drawing without it, every tile's drawing loop goes through all the
\* entities and draws every readable one as usual, and the run does not fail.
C9_FailingEntitySkipped ==
    /\ Bounded => box = calculate_bounding_box(Readable(msp))
    /\ \A k \in 1..Len(pdf) :
        /\ Len(pdf[k].drawn) = Len(msp)
        /\ \A i \in 1..Len(msp) :
            /\ ~msp[i].broken => pdf[k].drawn[i] # "error"
            /\ msp[i].kind = "LINE" /\ ~msp[i].broken => pdf[k].drawn[i] = "plot"
    /\ pc = "exited" => exit_status = 0
    /\ (pc = "exited" /\ LayoutDone) => Len(pdf) = cols * rows

\* C9's case: a run on a drawing whose first entity raised in both loops and
\* whose second is a line is over, with a page written
C9_Witness ==
    /\ pc = "exited"
    /\ Len(msp) = 2
    /\ BoundsRaises(msp[1]) /\ msp[2].kind = "LINE" /\ ~msp[2].broken
    /\ Len(pdf) >= 1
    /\ pdf[1].drawn[1] = "error"

\* C10: a successful run that entered the tile loop has appended exactly
\* cols * rows pages in row-major order, row 0 first: the k-th page (from 0)
\* is the tile of row k div cols and column k mod cols.
C10_PagesRowMajor ==
    (pc = "exited" /\ exit_status = 0 /\ LayoutDone) =>
        /\ Len(pdf) = cols * rows
        /\ \A k \in 1..Len(pdf) :
            /\ pdf[k].row = (k - 1) \div cols
            /\ pdf[k].col = (k - 1) % cols

=============================================================================
